---- MODULE Spec2Model ----
(***************************************************************************)
(* AirFly Insights (app.py): a Streamlit script that is re-executed from   *)
(* top to bottom on every interaction.                                     *)
(*                                                                         *)
(* Two specifications are given.                                           *)
(*   Spec          the run of the script as a whole (lines 9-132): data    *)
(*                 directory, network, archive extraction, file reads and  *)
(*                 the load_data cache.  Tables are known by their number  *)
(*                 of rows.                                                *)
(*   SpecPipeline  lines 55-124 on tables with their contents: load_data,  *)
(*                 the month filter, the KPIs and the five aggregations,   *)
(*                 over reruns with changing month selections.             *)
(***************************************************************************)
EXTENDS Integers, Sequences, FiniteSets, TLC

VARIABLES
    \* ---- Spec: the script run --------------------------------------------
    pc,            \* position of the run in the script
    run,           \* number of the current run in this process (1 = first)
    csv_path,      \* binding of the name csv_path used at line 28
    dirExists,     \* DATA_DIR exists
    zipOnDisk,     \* DATA_DIR/airlinedelaycauses.zip exists
    csvOnDisk,     \* the dataset CSV exists in DATA_DIR
    statsOnDisk,   \* DATA_DIR/monthly_stats.csv exists
    zipHasCsv,     \* the archive holds the dataset CSV
    fileRows,      \* number of data rows of the dataset CSV
    csv_file,      \* the name csv_file (lines 40-44)
    loaded,        \* rows of the table bound to df by lines 50 / 67
    cached,        \* paths memoised by st.cache_data for load_data
    shown,         \* messages st.info / st.error / st.success displayed in this run
    netCalls,      \* network accesses of this run (lines 31-33)
    dirWrites,     \* writes into DATA_DIR of this run (lines 33, 37)
    fileReads,     \* pd.read_csv calls of this run (lines 50, 57)
    totalWrites,   \* writes into DATA_DIR since the process started
    startCsv,      \* csvOnDisk when this run started
    startStats,    \* statsOnDisk when this run started
    trend,         \* what fig3 was drawn from in this run
    \* ---- SpecPipeline: lines 55-124 --------------------------------------
    ppc,           \* position of the run in lines 67-124
    prun,          \* number of the current run
    csv,           \* rows of the dataset CSV file
    cache,         \* st.cache_data entry for load_data(csv_file)
    selected,      \* value of the Month selectbox in the session
    prev_month,    \* value of the Month selectbox in the previous run
    df,            \* the name df
    month_opts,    \* line 73
    month,         \* line 74
    kpi,           \* lines 84-86
    rt,            \* line 94
    ap,            \* line 100
    m,             \* line 106
    cancel_counts, \* lines 114-115
    topc           \* line 122

runVars == <<pc, run, csv_path, dirExists, zipOnDisk, csvOnDisk, statsOnDisk,
             zipHasCsv, fileRows, csv_file, loaded, cached, shown, netCalls,
             dirWrites, fileReads, totalWrites, startCsv, startStats, trend>>
pipeVars == <<ppc, prun, csv, cache, selected, prev_month, df, month_opts,
              month, kpi, rt, ap, m, cancel_counts, topc>>
vars == <<runVars, pipeVars>>

(***************************************************************************)
(* Program constants and bounds                                            *)
(***************************************************************************)
NROWS == 50000          \* nrows=50000, line 57
TopN == 15              \* nlargest(15, ...), lines 94 and 100
TopCarriers == 8        \* head(8), line 122
All == 0                \* the selectbox entry "All" (months are 1..12)

MaxRows == 20           \* rows of a generated dataset file
MaxShape == 3           \* generated dataset shapes
MaxRuns == 3            \* runs of the script in one process

Min(a, b) == IF a <= b THEN a ELSE b

(***************************************************************************)
(* Values.  A float is a fraction <<num, den>>; 0/0 is NaN.  A cell of the *)
(* CSV file that may be empty is << >> (empty) or <<v>>.                   *)
(***************************************************************************)
NaN == <<0, 0>>
NaNStr == "nan"
Unbound == "unbound"

Airports == <<"ABQ", "ATL", "BNA", "BOS", "BWI", "DEN", "DFW", "DTW", "EWR",
              "IAH", "JFK", "LAS", "LAX", "MCO", "ORD", "PHX", "SEA", "SFO">>
Carriers == <<"9E", "AA", "AS", "B6", "CO", "DL", "EV", "F9", "FL", "MQ",
              "NW", "UA">>
Codes == <<"A", "B", NaNStr, "C", "N", "D", "B">>
Causes == <<"CarrierDelay", "WeatherDelay", "NASDelay", "SecurityDelay",
            "LateAircraftDelay">>

Idx(s, x) == CHOOSE i \in 1..Len(s) : s[i] = x

\* ---- dataset files -------------------------------------------------------
Opt(empty, v) == IF empty THEN << >> ELSE <<v>>

GenRow(i, k) ==
    [Month             |-> 1 + (((i % k) * 5) % 12),
     Origin            |-> Airports[1 + (i % (18 - k))],
     Dest              |-> Airports[1 + ((i \div 4) % 2)],
     UniqueCarrier     |-> Carriers[1 + (i % (11 - k))],
     DepTime           |-> Opt(i % 6 = 0, (i * 137) % 2400),
     ArrDelay          |-> Opt(i % 5 = 0, (i * 7) % 40),
     DepDelay          |-> Opt(i % 5 = 1, (i * 3) % 25),
     CarrierDelay      |-> Opt(i % 4 = 0, (i * k * 3) % 11),
     WeatherDelay      |-> Opt(i % 7 = 0, i % 3),
     NASDelay          |-> Opt(FALSE, (i + 1) % 4),
     SecurityDelay     |-> Opt(i % 2 = 0, 0),
     LateAircraftDelay |-> Opt(i % 3 = 1, (2 * i) % 5),
     Cancelled         |-> IF i % 3 = 0 THEN 1 ELSE 0,
     CancellationCode  |-> Codes[1 + (i % 7)]]

GenCsv(n, k) == [i \in 1..n |-> GenRow(i, k)]

ExRow(mo, o, d, arr, canc, code) ==
    [Month |-> mo, Origin |-> o, Dest |-> d, UniqueCarrier |-> "AA",
     DepTime |-> << >>, ArrDelay |-> <<arr>>, DepDelay |-> << >>,
     CarrierDelay |-> << >>, WeatherDelay |-> << >>, NASDelay |-> << >>,
     SecurityDelay |-> << >>, LateAircraftDelay |-> << >>,
     Cancelled |-> canc, CancellationCode |-> code]

ExampleCsv == << ExRow(1, "JFK", "LAX", 10, 0, NaNStr),
                 ExRow(1, "JFK", "LAX", 20, 1, "B"),
                 ExRow(2, "ORD", "DFW", 5, 0, NaNStr) >>

CsvFiles == {GenCsv(n, k) : n \in 0..MaxRows, k \in 1..MaxShape} \cup {ExampleCsv}

(***************************************************************************)
(* load_data (lines 55-65)                                                 *)
(***************************************************************************)
read_csv(file, nrows) == SubSeq(file, 1, Min(nrows, Len(file)))

fillna(cell, v) == IF cell = << >> THEN v ELSE cell[1]

FilledColumns == {"ArrDelay", "DepDelay", "CarrierDelay", "WeatherDelay",
                  "NASDelay", "SecurityDelay", "LateAircraftDelay"}

Engineer(r) ==
    [f \in DOMAIN r |-> IF f \in FilledColumns THEN fillna(r[f], 0) ELSE r[f]]
    @@ [Route   |-> r.Origin \o "-" \o r.Dest,
        DepHour |-> fillna(r.DepTime, 0) \div 100]

load_data(file) ==
    LET t == read_csv(file, NROWS)
    IN  [i \in 1..Len(t) |-> Engineer(t[i])]

(***************************************************************************)
(* Table helpers: what the pandas calls of lines 73-122 compute            *)
(***************************************************************************)
RECURSIVE SumOver(_, _)
SumOver(t, col) ==
    IF t = << >> THEN 0 ELSE t[1][col] + SumOver(Tail(t), col)

mean(t, col) == <<SumOver(t, col), Len(t)>>

IsNaN(x) == x[2] = 0
FloatLess(a, b) == a[1] * b[2] < b[1] * a[2]
FloatEq(a, b) == a[1] * b[2] = b[1] * a[2]

\* round(x, 2) of the fraction num/den, as hundredths (ties to even)
RoundDiv(a, b) ==
    LET q == a \div b
        r == a % b
    IN  IF 2 * r < b THEN q
        ELSE IF 2 * r > b THEN q + 1
        ELSE IF q % 2 = 0 THEN q ELSE q + 1

round2(x) == IF IsNaN(x) THEN NaN ELSE <<RoundDiv(100 * x[1], x[2]), 100>>

Where(t, col, v) == SelectSeq(t, LAMBDA r : r[col] = v)

Column(t, col) == {t[i][col] : i \in 1..Len(t)}

RECURSIVE SortByRank(_, _)
SortByRank(S, rank) ==
    IF S = {} THEN << >>
    ELSE LET x == CHOOSE x \in S : \A y \in S : rank[x] <= rank[y]
         IN  <<x>> \o SortByRank(S \ {x}, rank)

\* groupby sorts its keys; strings of equal length compare letter by letter
RouteRank(t) ==
    [g \in Column(t, "Route") |->
        LET r == t[CHOOSE i \in 1..Len(t) : t[i].Route = g]
        IN  Idx(Airports, r.Origin) * (Len(Airports) + 1) + Idx(Airports, r.Dest)]
OriginRank(t) == [g \in Column(t, "Origin") |-> Idx(Airports, g)]
CarrierRank(t) == [g \in Column(t, "UniqueCarrier") |-> Idx(Carriers, g)]
MonthRank(t) == [g \in Column(t, "Month") |-> g]

RemoveAt(t, i) == SubSeq(t, 1, i - 1) \o SubSeq(t, i + 1, Len(t))

\* rows by descending t[col], rows of equal value in their order in t
RECURSIVE SortDesc(_, _)
SortDesc(t, col) ==
    IF t = << >> THEN << >>
    ELSE LET i == CHOOSE i \in 1..Len(t) :
                    /\ \A j \in 1..Len(t) : t[j][col] <= t[i][col]
                    /\ \A j \in 1..(i - 1) : t[j][col] < t[i][col]
         IN  <<t[i]>> \o SortDesc(RemoveAt(t, i), col)

head(t, n) == SubSeq(t, 1, Min(n, Len(t)))

\* mutant: the first n groups in key order, not the n largest
nlargest_unsorted(n, t, col) == head(t, n)

nlargest(n, t, col) == head(SortDesc(t, col), n)

(***************************************************************************)
(* Lines 73-78: the sidebar and the month filter                           *)
(***************************************************************************)
MonthOpts(t) == <<All>> \o SortByRank(Column(t, "Month"), MonthRank(t))

ApplyFilter(t, mo) == IF mo # All THEN Where(t, "Month", mo) ELSE t

(***************************************************************************)
(* Lines 84-86: KPIs                                                       *)
(***************************************************************************)
KPIs(t) ==
    [total |-> Len(t),
     avg   |-> round2(mean(t, "ArrDelay")),
     rate  |-> round2(<<100 * SumOver(t, "Cancelled"), Len(t)>>)]

(***************************************************************************)
(* Lines 94, 100: top routes, busiest origin airports                      *)
(***************************************************************************)
RouteGroups(t) ==
    LET keys == SortByRank(Column(t, "Route"), RouteRank(t))
    IN  [i \in 1..Len(keys) |->
            LET g == Where(t, "Route", keys[i])
            IN  [Route |-> keys[i], flights |-> Len(g),
                 avg_arr_delay |-> mean(g, "ArrDelay")]]

TopRoutes(t) == nlargest(TopN, RouteGroups(t), "flights")

OriginGroups(t) ==
    LET keys == SortByRank(Column(t, "Origin"), OriginRank(t))
    IN  [i \in 1..Len(keys) |->
            LET g == Where(t, "Origin", keys[i])
            IN  [Origin |-> keys[i], departures |-> Len(g),
                 avg_arr_delay |-> mean(g, "ArrDelay")]]

TopAirports(t) == nlargest(TopN, OriginGroups(t), "departures")

(***************************************************************************)
(* Line 106: monthly trend                                                 *)
(***************************************************************************)
MonthlyTrend(t) ==
    LET keys == SortByRank(Column(t, "Month"), MonthRank(t))
    IN  [i \in 1..Len(keys) |->
            LET g == Where(t, "Month", keys[i])
            IN  [Month |-> keys[i], avg_arr_delay |-> mean(g, "ArrDelay"),
                 cancellations |-> SumOver(g, "Cancelled")]]

(***************************************************************************)
(* Lines 112-115: cancellation reasons                                     *)
(***************************************************************************)
cmap == [A |-> "Carrier", B |-> "Weather", C |-> "NAS", D |-> "Security"]

MapReason(code) == IF code \in DOMAIN cmap THEN cmap[code] ELSE NaNStr

WithReason(t) ==
    [i \in 1..Len(t) |->
        t[i] @@ [CancellationReason |-> MapReason(t[i].CancellationCode)]]

\* mutant: the filter Cancelled == 1 left out
CancelledRows_all(t) == t

CancelledRows(t) == Where(t, "Cancelled", 1)

\* value_counts: one row per value that is not NaN, by descending count
value_counts(t, col) ==
    LET vals  == Column(t, col) \ {NaNStr}
        first == [v \in vals |-> CHOOSE i \in 1..Len(t) :
                     /\ t[i][col] = v
                     /\ \A j \in 1..(i - 1) : t[j][col] # v]
        keys  == SortByRank(vals, first)
    IN  SortDesc([i \in 1..Len(keys) |->
                     [Reason |-> keys[i], Count |-> Len(Where(t, col, keys[i]))]],
                 "Count")

CancelCounts(t) == value_counts(CancelledRows(t), "CancellationReason")

(***************************************************************************)
(* Lines 121-122: delay causes by carrier                                  *)
(***************************************************************************)
CarrierMeans(t) ==
    LET keys == SortByRank(Column(t, "UniqueCarrier"), CarrierRank(t))
    IN  [i \in 1..Len(keys) |->
            LET g == Where(t, "UniqueCarrier", keys[i])
            IN  [UniqueCarrier     |-> keys[i],
                 CarrierDelay      |-> mean(g, "CarrierDelay"),
                 WeatherDelay      |-> mean(g, "WeatherDelay"),
                 NASDelay          |-> mean(g, "NASDelay"),
                 SecurityDelay     |-> mean(g, "SecurityDelay"),
                 LateAircraftDelay |-> mean(g, "LateAircraftDelay")]]

\* mutant: ascending=False left out
RECURSIVE sort_values_asc(_, _)
sort_values_asc(t, col) ==
    IF t = << >> THEN << >>
    ELSE LET i == CHOOSE i \in 1..Len(t) :
                    /\ \A j \in 1..Len(t) : ~FloatLess(t[j][col], t[i][col])
                    /\ \A j \in 1..(i - 1) : FloatLess(t[i][col], t[j][col])
         IN  <<t[i]>> \o sort_values_asc(RemoveAt(t, i), col)

\* sort_values(col, ascending=False) on a float column
RECURSIVE sort_values_desc(_, _)
sort_values_desc(t, col) ==
    IF t = << >> THEN << >>
    ELSE LET i == CHOOSE i \in 1..Len(t) :
                    /\ \A j \in 1..Len(t) : ~FloatLess(t[i][col], t[j][col])
                    /\ \A j \in 1..(i - 1) : FloatLess(t[j][col], t[i][col])
         IN  <<t[i]>> \o sort_values_desc(RemoveAt(t, i), col)

RECURSIVE Pick(_, _)
Pick(t, S) ==
    IF t = << >> THEN << >>
    ELSE (IF Len(t) \in S THEN Pick(SubSeq(t, 1, Len(t) - 1), S) \o <<t[Len(t)]>>
          ELSE Pick(SubSeq(t, 1, Len(t) - 1), S))

\* sort_values(...).head(n): the default sort is not stable, so rows whose
\* value equals that of the n-th row may come out in any order
SortedHeads(t, col, n) ==
    LET s      == sort_values_desc(t, col)
        k      == Min(n, Len(s))
        strict == {i \in 1..k : ~FloatEq(s[i][col], s[k][col])}
        tied   == {i \in 1..Len(s) : k > 0 /\ FloatEq(s[i][col], s[k][col])}
    IN  {Pick(s, strict \cup T) :
            T \in {T \in SUBSET tied : Cardinality(T) = k - Cardinality(strict)}}

\* melt(id_vars="UniqueCarrier", var_name="Cause", value_name="Minutes")
RECURSIVE melt(_, _)
melt(t, causes) ==
    IF causes = << >> THEN << >>
    ELSE [i \in 1..Len(t) |->
             [UniqueCarrier |-> t[i].UniqueCarrier, Cause |-> causes[1],
              Minutes |-> t[i][causes[1]]]]
         \o melt(t, Tail(causes))

(***************************************************************************)
(* SpecPipeline: lines 67-124, run after run                               *)
(***************************************************************************)
Range(s) == {s[i] : i \in 1..Len(s)}

\* line 67: df = load_data(csv_file); st.cache_data hands out a copy of the
\* stored table, or runs the function and stores its result
Load ==
    /\ ppc = "load"
    /\ IF cache = << >>
         THEN /\ cache' = <<load_data(csv)>>
              /\ df' = load_data(csv)
         ELSE /\ df' = cache[1]
              /\ UNCHANGED cache
    /\ ppc' = "sidebar"
    /\ UNCHANGED <<prun, csv, selected, prev_month, month_opts, month, kpi, rt,
                   ap, m, cancel_counts, topc>>

\* mutant: the filtered table replaces the cached one
Sidebar_narrowsCache ==
    /\ ppc = "sidebar"
    /\ month_opts' = MonthOpts(df)
    /\ month' = selected
    /\ df' = ApplyFilter(df, selected)
    /\ cache' = <<ApplyFilter(df, selected)>>
    /\ ppc' = "kpi"
    /\ UNCHANGED <<prun, csv, selected, prev_month, kpi, rt, ap, m,
                   cancel_counts, topc>>

\* lines 72-78
Sidebar ==
    /\ ppc = "sidebar"
    /\ month_opts' = MonthOpts(df)
    /\ month' = selected
    /\ df' = ApplyFilter(df, selected)
    /\ ppc' = "kpi"
    /\ UNCHANGED <<prun, csv, cache, selected, prev_month, kpi, rt, ap, m,
                   cancel_counts, topc>>

\* lines 83-86
Metrics ==
    /\ ppc = "kpi"
    /\ kpi' = KPIs(df)
    /\ ppc' = "routes"
    /\ UNCHANGED <<prun, csv, cache, selected, prev_month, df, month_opts,
                   month, rt, ap, m, cancel_counts, topc>>

\* lines 93-96
PlotRoutes ==
    /\ ppc = "routes"
    /\ rt' = TopRoutes(df)
    /\ ppc' = "airports"
    /\ UNCHANGED <<prun, csv, cache, selected, prev_month, df, month_opts,
                   month, kpi, ap, m, cancel_counts, topc>>

\* lines 99-102
PlotAirports ==
    /\ ppc = "airports"
    /\ ap' = TopAirports(df)
    /\ ppc' = "trend"
    /\ UNCHANGED <<prun, csv, cache, selected, prev_month, df, month_opts,
                   month, kpi, rt, m, cancel_counts, topc>>

\* lines 105-108
PlotTrend ==
    /\ ppc = "trend"
    /\ m' = MonthlyTrend(df)
    /\ ppc' = "cancel"
    /\ UNCHANGED <<prun, csv, cache, selected, prev_month, df, month_opts,
                   month, kpi, rt, ap, cancel_counts, topc>>

\* lines 111-117
PlotCancel ==
    /\ ppc = "cancel"
    /\ df' = WithReason(df)
    /\ cancel_counts' = CancelCounts(WithReason(df))
    /\ ppc' = "carriers"
    /\ UNCHANGED <<prun, csv, cache, selected, prev_month, month_opts, month,
                   kpi, rt, ap, m, topc>>

\* lines 120-124
PlotCarriers ==
    /\ ppc = "carriers"
    /\ \E top \in SortedHeads(CarrierMeans(df), "CarrierDelay", TopCarriers) :
          topc' = melt(top, Causes)
    /\ ppc' = "done"
    /\ UNCHANGED <<prun, csv, cache, selected, prev_month, df, month_opts,
                   month, kpi, rt, ap, m, cancel_counts>>

\* the user picks an entry of the Month selectbox: the script runs again in
\* a fresh namespace
Reselect ==
    /\ ppc = "done"
    /\ prun < MaxRuns
    /\ \E mo \in Range(month_opts) : selected' = mo
    /\ prev_month' = month
    /\ prun' = prun + 1
    /\ ppc' = "load"
    /\ df' = Unbound /\ month_opts' = Unbound /\ month' = Unbound
    /\ kpi' = Unbound /\ rt' = Unbound /\ ap' = Unbound /\ m' = Unbound
    /\ cancel_counts' = Unbound /\ topc' = Unbound
    /\ UNCHANGED <<csv, cache>>

(***************************************************************************)
(* Spec: one run of the script after another (lines 9-132)                 *)
(*                                                                         *)
(* app.py uses the name csv_path at line 28 and binds it nowhere.  The     *)
(* namespace the script is executed in either leaves it unbound (line 28   *)
(* raises NameError and the run ends there) or binds it to the path of the *)
(* dataset CSV, the path the test of line 28 is written for.               *)
(***************************************************************************)
Dataset == "dataset"
Stats == "monthly_stats"
None == "None"

FileRowsSet == {0, 3, NROWS, NROWS + 1}

\* rows of a file of DATA_DIR whose name ends in .csv
RowsOf(f) == IF f = Dataset THEN fileRows ELSE 1

\* os.listdir(DATA_DIR), the names ending in ".csv"
CsvNames == (IF csvOnDisk THEN {Dataset} ELSE {})
            \cup (IF statsOnDisk THEN {Stats} ELSE {})

Crash ==
    pc' = "crashed"

\* lines 9-24
Setup ==
    /\ pc = "start"
    /\ dirExists' = TRUE
    /\ pc' = "check"
    /\ UNCHANGED <<run, csv_path, zipOnDisk, csvOnDisk, statsOnDisk, zipHasCsv,
                   fileRows, csv_file, loaded, cached, shown, netCalls,
                   dirWrites, fileReads, totalWrites, startCsv, startStats,
                   trend>>

\* line 28: if not os.path.exists(csv_path)
CheckCsv ==
    /\ pc = "check"
    /\ IF csv_path = Unbound THEN Crash
       ELSE IF ~csvOnDisk THEN pc' = "download"
       ELSE pc' = "extract"
    /\ UNCHANGED <<run, csv_path, dirExists, zipOnDisk, csvOnDisk, statsOnDisk,
                   zipHasCsv, fileRows, csv_file, loaded, cached, shown,
                   netCalls, dirWrites, fileReads, totalWrites, startCsv,
                   startStats, trend>>

\* lines 29-33: authenticate, download the archive and unzip it into
\* DATA_DIR; the library may leave the archive in place or delete it
DownloadOk ==
    /\ pc = "download"
    /\ shown' = shown \cup {"info"}
    /\ netCalls' = netCalls + 1
    /\ dirWrites' = dirWrites + 1
    /\ totalWrites' = totalWrites + 1
    /\ csvOnDisk' = (csvOnDisk \/ zipHasCsv)
    /\ zipOnDisk' \in BOOLEAN
    /\ pc' = "extract"
    /\ UNCHANGED <<run, csv_path, dirExists, statsOnDisk, zipHasCsv, fileRows,
                   csv_file, loaded, cached, fileReads, startCsv, startStats,
                   trend>>

\* lines 29-33 when authentication or the download raises
DownloadFails ==
    /\ pc = "download"
    /\ shown' = shown \cup {"info"}
    /\ netCalls' = netCalls + 1
    /\ Crash
    /\ UNCHANGED <<run, csv_path, dirExists, zipOnDisk, csvOnDisk, statsOnDisk,
                   zipHasCsv, fileRows, csv_file, loaded, cached, dirWrites,
                   fileReads, totalWrites, startCsv, startStats, trend>>

\* lines 36-37: zipfile.ZipFile(zip_path).extractall(DATA_DIR)
Extract ==
    /\ pc = "extract"
    /\ IF zipOnDisk
         THEN /\ csvOnDisk' = (csvOnDisk \/ zipHasCsv)
              /\ dirWrites' = dirWrites + 1
              /\ totalWrites' = totalWrites + 1
              /\ pc' = "find"
         ELSE /\ Crash
              /\ UNCHANGED <<csvOnDisk, dirWrites, totalWrites>>
    /\ UNCHANGED <<run, csv_path, dirExists, zipOnDisk, statsOnDisk, zipHasCsv,
                   fileRows, csv_file, loaded, cached, shown, netCalls,
                   fileReads, startCsv, startStats, trend>>

\* lines 40-50: the first name of os.listdir ending in ".csv"; listdir gives
\* the names in arbitrary order
FindCsv ==
    /\ pc = "find"
    /\ IF CsvNames = {}
         THEN /\ csv_file' = None
              /\ shown' = shown \cup {"error"}
              /\ UNCHANGED <<loaded, fileReads>>
         ELSE \E f \in CsvNames :
              /\ csv_file' = f
              /\ shown' = shown \cup {"success"}
              /\ loaded' = <<RowsOf(f)>>
              /\ fileReads' = fileReads + 1
    /\ pc' = "load"
    /\ UNCHANGED <<run, csv_path, dirExists, zipOnDisk, csvOnDisk, statsOnDisk,
                   zipHasCsv, fileRows, cached, netCalls, dirWrites,
                   totalWrites, startCsv, startStats, trend>>

\* lines 55-67: df = load_data(csv_file) under st.cache_data
LoadData ==
    /\ pc = "load"
    /\ IF csv_file \in cached
         THEN /\ loaded' = <<Min(NROWS, RowsOf(csv_file))>>
              /\ pc' = "render"
              /\ UNCHANGED <<cached, fileReads>>
         ELSE IF csv_file = None
         THEN /\ Crash
              /\ UNCHANGED <<loaded, cached, fileReads>>
         ELSE IF csv_file = Stats
         THEN /\ fileReads' = fileReads + 1
              /\ Crash
              /\ UNCHANGED <<loaded, cached>>
         ELSE /\ fileReads' = fileReads + 1
              /\ loaded' = <<Min(NROWS, RowsOf(csv_file))>>
              /\ cached' = cached \cup {csv_file}
              /\ pc' = "render"
    /\ UNCHANGED <<run, csv_path, dirExists, zipOnDisk, csvOnDisk, statsOnDisk,
                   zipHasCsv, fileRows, csv_file, shown, netCalls, dirWrites,
                   totalWrites, startCsv, startStats, trend>>

\* lines 72-132: sidebar, KPIs and the five charts, all computed from df
Render ==
    /\ pc = "render"
    /\ trend' = "groupby(df)"
    /\ pc' = "done"
    /\ UNCHANGED <<run, csv_path, dirExists, zipOnDisk, csvOnDisk, statsOnDisk,
                   zipHasCsv, fileRows, csv_file, loaded, cached, shown,
                   netCalls, dirWrites, fileReads, totalWrites, startCsv,
                   startStats>>

\* an interaction with the page: the script is executed again
Rerun ==
    /\ pc \in {"done", "crashed"}
    /\ run < MaxRuns
    /\ run' = run + 1
    /\ pc' = "start"
    /\ csv_file' = Unbound
    /\ loaded' = << >>
    /\ shown' = {}
    /\ netCalls' = 0 /\ dirWrites' = 0 /\ fileReads' = 0
    /\ startCsv' = csvOnDisk
    /\ startStats' = statsOnDisk
    /\ trend' = "unset"
    /\ UNCHANGED <<csv_path, dirExists, zipOnDisk, csvOnDisk, statsOnDisk,
                   zipHasCsv, fileRows, cached, totalWrites>>

(***************************************************************************)
(* Initial states and specifications                                       *)
(***************************************************************************)
RunInit ==
    /\ pc = "start" /\ run = 1
    /\ csv_path \in {Unbound, Dataset}
    /\ dirExists \in BOOLEAN
    /\ zipOnDisk \in {b \in BOOLEAN : b => dirExists}
    /\ csvOnDisk \in {b \in BOOLEAN : b => dirExists}
    /\ statsOnDisk \in {b \in BOOLEAN : b => dirExists}
    /\ zipHasCsv \in BOOLEAN
    /\ fileRows \in FileRowsSet
    /\ csv_file = Unbound
    /\ loaded = << >>
    /\ cached = {}
    /\ shown = {}
    /\ netCalls = 0 /\ dirWrites = 0 /\ fileReads = 0 /\ totalWrites = 0
    /\ startCsv = csvOnDisk
    /\ startStats = statsOnDisk
    /\ trend = "unset"

PipeInit ==
    /\ ppc = "load" /\ prun = 1
    /\ csv \in CsvFiles
    /\ cache = << >>
    /\ selected = All
    /\ prev_month = All
    /\ df = Unbound /\ month_opts = Unbound /\ month = Unbound
    /\ kpi = Unbound /\ rt = Unbound /\ ap = Unbound /\ m = Unbound
    /\ cancel_counts = Unbound /\ topc = Unbound

\* the part of the state a specification does not use stays as it is here
RunIdle ==
    /\ pc = "start" /\ run = 1 /\ csv_path = Dataset
    /\ dirExists = TRUE /\ zipOnDisk = TRUE /\ csvOnDisk = TRUE
    /\ statsOnDisk = FALSE /\ zipHasCsv = TRUE /\ fileRows = 0
    /\ csv_file = Unbound /\ loaded = << >> /\ cached = {} /\ shown = {}
    /\ netCalls = 0 /\ dirWrites = 0 /\ fileReads = 0 /\ totalWrites = 0
    /\ startCsv = TRUE /\ startStats = FALSE /\ trend = "unset"

PipeIdle ==
    /\ ppc = "load" /\ prun = 1 /\ csv = << >> /\ cache = << >>
    /\ selected = All /\ prev_month = All
    /\ df = Unbound /\ month_opts = Unbound /\ month = Unbound
    /\ kpi = Unbound /\ rt = Unbound /\ ap = Unbound /\ m = Unbound
    /\ cancel_counts = Unbound /\ topc = Unbound

Init == RunInit /\ PipeIdle

Next ==
    \/ Setup /\ UNCHANGED pipeVars
    \/ CheckCsv /\ UNCHANGED pipeVars
    \/ DownloadOk /\ UNCHANGED pipeVars
    \/ DownloadFails /\ UNCHANGED pipeVars
    \/ Extract /\ UNCHANGED pipeVars
    \/ FindCsv /\ UNCHANGED pipeVars
    \/ LoadData /\ UNCHANGED pipeVars
    \/ Render /\ UNCHANGED pipeVars
    \/ Rerun /\ UNCHANGED pipeVars

Spec == Init /\ [][Next]_vars

InitPipeline == PipeInit /\ RunIdle

NextPipeline ==
    \/ Load /\ UNCHANGED runVars
    \/ Sidebar /\ UNCHANGED runVars
    \/ Metrics /\ UNCHANGED runVars
    \/ PlotRoutes /\ UNCHANGED runVars
    \/ PlotAirports /\ UNCHANGED runVars
    \/ PlotTrend /\ UNCHANGED runVars
    \/ PlotCancel /\ UNCHANGED runVars
    \/ PlotCarriers /\ UNCHANGED runVars
    \/ Reselect /\ UNCHANGED runVars

SpecPipeline == InitPipeline /\ [][NextPipeline]_vars

(***************************************************************************)
(* Properties                                                              *)
(***************************************************************************)
AfterFilter == {"kpi", "routes", "airports", "trend", "cancel", "carriers", "done"}

\* rows of df without the column line 113 adds
Rows(t) == [i \in 1..Len(t) |->
               [f \in DOMAIN t[i] \ {"CancellationReason"} |-> t[i][f]]]

Count(t, col, v) == Cardinality({i \in 1..Len(t) : t[i][col] = v})

\* C1: in every run, whatever was selected in the runs before, the table the
\* KPIs and the aggregations work on holds exactly the rows of the loaded
\* full table whose Month is the selected month (every row for "All"), and
\* the monthly trend has one row for that month (one per month present for
\* "All").
C1_FilterIsExactPerRun ==
    ppc \in AfterFilter =>
        LET full == load_data(csv)
            keep == {i \in 1..Len(full) : month = All \/ full[i].Month = month}
            mos  == IF month = All THEN Column(full, "Month") ELSE {month}
        IN  /\ month = selected
            /\ month \in Range(month_opts)
            /\ Len(df) = Cardinality(keep)
            /\ Rows(df) = Pick(full, keep)
            /\ cache = <<full>>
            /\ ppc \in {"cancel", "carriers", "done"} =>
                  /\ {m[i].Month : i \in 1..Len(m)} = mos
                  /\ Len(m) = Cardinality(mos)

\* a run showing every month, after a run that was filtered to one month
\* holding only part of the rows
C1_Witness ==
    /\ ppc = "done" /\ prun >= 2
    /\ prev_month # All /\ month = All
    /\ Len(df) = Len(load_data(csv))
    /\ Count(df, "Month", prev_month) > 0
    /\ Count(df, "Month", prev_month) < Len(df)
    /\ Len(m) > 1

\* C3: top routes and busiest origin airports each hold min(15, number of
\* groups) rows, one per group, with the group's row count, by descending
\* count, and no group left out has more rows than a group that is shown.
TopOk(top, t, key, metric) ==
    LET groups == Column(t, key)
        given  == {top[i][key] : i \in 1..Len(top)}
    IN  /\ Len(top) = Min(TopN, Cardinality(groups))
        /\ Cardinality(given) = Len(top)
        /\ given \subseteq groups
        /\ \A i \in 1..Len(top) : top[i][metric] = Count(t, key, top[i][key])
        /\ \A i, j \in 1..Len(top) : i < j => top[i][metric] >= top[j][metric]
        /\ \A g \in groups \ given : \A i \in 1..Len(top) :
              Count(t, key, g) <= top[i][metric]

C3_TopFifteen ==
    /\ ppc \in {"airports", "trend", "cancel", "carriers", "done"} =>
          TopOk(rt, df, "Route", "flights")
    /\ ppc \in {"trend", "cancel", "carriers", "done"} =>
          TopOk(ap, df, "Origin", "departures")

\* more than 15 routes and more than 15 origins, of unequal counts
C3_Witness ==
    /\ ppc = "done"
    /\ Cardinality(Column(df, "Route")) > TopN
    /\ Cardinality(Column(df, "Origin")) > TopN
    /\ Len(rt) = TopN /\ Len(ap) = TopN
    /\ rt[1].flights > rt[TopN].flights
    /\ ap[1].departures > ap[TopN].departures

\* C4: the cancellation-reasons table gives, for each of Carrier, Weather,
\* NAS, Security, the number of rows with Cancelled = 1 and code A, B, C, D
\* respectively (a label of count 0 has no row); other codes and rows with
\* Cancelled = 0 are not counted; the 3-row example filtered to month 1
\* gives [(Weather, 1)].
LetterOf == [Carrier |-> "A", Weather |-> "B", NAS |-> "C", Security |-> "D"]

C4_CancelReasons ==
    ppc \in {"carriers", "done"} =>
        LET reasons == {cancel_counts[i].Reason : i \in 1..Len(cancel_counts)}
            hits(l) == {i \in 1..Len(df) : /\ df[i].Cancelled = 1
                                           /\ df[i].CancellationCode = LetterOf[l]}
        IN  /\ reasons \subseteq DOMAIN LetterOf
            /\ Cardinality(reasons) = Len(cancel_counts)
            /\ \A i \in 1..Len(cancel_counts) :
                  cancel_counts[i].Count = Cardinality(hits(cancel_counts[i].Reason))
            /\ \A l \in DOMAIN LetterOf : (l \in reasons) = (hits(l) # {})
            /\ (csv = ExampleCsv /\ month = 1) =>
                  cancel_counts = <<[Reason |-> "Weather", Count |-> 1]>>

\* cancelled rows with a code outside A-D, rows not cancelled that carry a
\* code A-D, and at least two labels counted
C4_Witness ==
    /\ ppc = "done"
    /\ Len(cancel_counts) >= 2
    /\ \E i \in 1..Len(df) :
          df[i].Cancelled = 1 /\ df[i].CancellationCode \notin {"A", "B", "C", "D"}
    /\ \E i \in 1..Len(df) :
          df[i].Cancelled = 0 /\ df[i].CancellationCode \in {"A", "B", "C", "D"}

\* C5: the carrier breakdown selects min(8, number of carriers) carriers,
\* none of them with a lower mean CarrierDelay than a carrier left out, and
\* the long table has one row per selected carrier and cause: carriers x 5.
C5_CarrierBreakdown ==
    ppc = "done" =>
        LET carriers == Column(df, "UniqueCarrier")
            sel      == {topc[i].UniqueCarrier : i \in 1..Len(topc)}
            avg(c)   == mean(Where(df, "UniqueCarrier", c), "CarrierDelay")
        IN  /\ sel \subseteq carriers
            /\ Cardinality(sel) = Min(TopCarriers, Cardinality(carriers))
            /\ \A a \in sel : \A b \in carriers \ sel : ~FloatLess(avg(a), avg(b))
            /\ Len(topc) = Cardinality(sel) * 5
            /\ \A c \in sel : \A k \in 1..Len(Causes) :
                  Cardinality({i \in 1..Len(topc) :
                      /\ topc[i].UniqueCarrier = c
                      /\ topc[i].Cause = Causes[k]
                      /\ topc[i].Minutes = mean(Where(df, "UniqueCarrier", c), Causes[k])}) = 1

\* more than 8 carriers, one left out with a strictly lower mean
C5_Witness ==
    /\ ppc = "done"
    /\ Cardinality(Column(df, "UniqueCarrier")) > TopCarriers
    /\ Len(topc) = TopCarriers * 5
    /\ \E b \in Column(df, "UniqueCarrier") \ {topc[i].UniqueCarrier : i \in 1..Len(topc)} :
          FloatLess(mean(Where(df, "UniqueCarrier", b), "CarrierDelay"), topc[1].Minutes)

C10_TrendFromMonthlyStats ==
    (startStats /\ ~startCsv /\ pc \in {"done", "crashed"}) =>
        trend = "monthly_stats"

====
